---- MODULE Spec2Model ----
(***************************************************************************)
(* Wordlist-generation engine of analyzer.py: split_tokens, l33tify, mix,  *)
(* sprinkle, year_range, gen_wordlist and the size cap of cmd_gen.         *)
(*                                                                         *)
(* A Python str is a sequence of one-character strings; a Python set is a  *)
(* set; a Python list is a sequence.                                       *)
(***************************************************************************)
EXTENDS Integers, Sequences, FiniteSets, TLC

VARIABLES pc, name, pet, dob, keywords, extra_years, max, now,
          tokens, base, years, pool, with_years, words, arg, ret

vars == <<pc, name, pet, dob, keywords, extra_years, max, now,
          tokens, base, years, pool, with_years, words, arg, ret>>

Range(s) == {s[i] : i \in DOMAIN s}

Min(a, b) == IF a <= b THEN a ELSE b

Max(a, b) == IF a >= b THEN a ELSE b

(***************************************************************************)
(* Characters.  AsciiLow lists the characters of code points 32..95 and    *)
(* AsciiHigh those of code points 97..126, each in code-point order; the   *)
(* tab (code point 9) is added so that whitespace is more than the space.  *)
(***************************************************************************)
AsciiLow ==
  <<" ", "!", "\"", "#", "$", "%", "&", "'", "(", ")", "*", "+", ",", "-", ".", "/",
    "0", "1", "2", "3", "4", "5", "6", "7", "8", "9", ":", ";", "<", "=", ">", "?",
    "@", "A", "B", "C", "D", "E", "F", "G", "H", "I", "J", "K", "L", "M", "N", "O",
    "P", "Q", "R", "S", "T", "U", "V", "W", "X", "Y", "Z", "[", "\\", "]", "^", "_">>

AsciiHigh ==
  <<"a", "b", "c", "d", "e", "f", "g", "h", "i", "j", "k", "l", "m", "n", "o",
    "p", "q", "r", "s", "t", "u", "v", "w", "x", "y", "z", "{", "|", "}", "~">>

Char == Range(AsciiLow) \cup Range(AsciiHigh) \cup {"\t"}

\* ord(c): the code point of c, the key Python compares strings by
Ord ==
  [c \in Char |->
     IF c = "\t" THEN 9
     ELSE IF c \in Range(AsciiLow)
          THEN 31 + (CHOOSE i \in DOMAIN AsciiLow : AsciiLow[i] = c)
          ELSE 96 + (CHOOSE i \in DOMAIN AsciiHigh : AsciiHigh[i] = c)]

UpperLetters == {c \in Char : Ord[c] >= Ord["A"] /\ Ord[c] <= Ord["Z"]}

LowerLetters == {c \in Char : Ord[c] >= Ord["a"] /\ Ord[c] <= Ord["z"]}

Digits == {c \in Char : Ord[c] >= Ord["0"] /\ Ord[c] <= Ord["9"]}

\* str.isspace on one character
Whitespace == {" ", "\t"}

CaseOffset == Ord["a"] - Ord["A"]

chr(n) == CHOOSE c \in Char : Ord[c] = n

char_lower == [c \in Char |-> IF c \in UpperLetters THEN chr(Ord[c] + CaseOffset) ELSE c]

char_upper == [c \in Char |-> IF c \in LowerLetters THEN chr(Ord[c] - CaseOffset) ELSE c]

\* str.lower()
str_lower(s) == [i \in DOMAIN s |-> char_lower[s[i]]]

\* str.upper()
str_upper(s) == [i \in DOMAIN s |-> char_upper[s[i]]]

\* str.capitalize(): first character upper-cased, the rest lower-cased
str_capitalize(s) == [i \in DOMAIN s |-> IF i = 1 THEN char_upper[s[i]] ELSE char_lower[s[i]]]

\* str.title(): a cased character is upper-cased when the character before it
\* is uncased (or there is none) and lower-cased otherwise
str_title(s) ==
  [i \in DOMAIN s |->
     IF i > 1 /\ s[i-1] \in (UpperLetters \cup LowerLetters)
     THEN char_lower[s[i]] ELSE char_upper[s[i]]]

\* str.isdigit()
str_isdigit(s) == s # <<>> /\ \A i \in DOMAIN s : s[i] \in Digits

\* str.strip(): leading and trailing whitespace removed
str_strip(s) ==
  LET keep == {i \in DOMAIN s : s[i] \notin Whitespace}
  IN  IF keep = {} THEN <<>>
      ELSE LET lo == CHOOSE i \in keep : \A j \in keep : i <= j
               hi == CHOOSE i \in keep : \A j \in keep : i >= j
           IN  SubSeq(s, lo, hi)

\* str(n) for n >= 0: the decimal rendering
RECURSIVE int_str(_)
int_str(n) ==
  IF n < 10 THEN <<chr(Ord["0"] + n)>>
  ELSE int_str(n \div 10) \o <<chr(Ord["0"] + (n % 10))>>

\* a < b for two str: lexicographic by code point, a proper prefix first
RECURSIVE str_lt_from(_, _, _)
str_lt_from(a, b, i) ==
  IF i > Len(a) THEN i <= Len(b)
  ELSE IF i > Len(b) THEN FALSE
  ELSE IF a[i] = b[i] THEN str_lt_from(a, b, i + 1)
  ELSE Ord[a[i]] < Ord[b[i]]

str_lt(a, b) == str_lt_from(a, b, 1)

\* sorted(S): the members of S in ascending order
RECURSIVE sorted(_)
sorted(S) ==
  IF S = {} THEN <<>>
  ELSE LET p == CHOOSE x \in S : TRUE
       IN  sorted({x \in S : str_lt(x, p)}) \o <<p>> \o sorted({x \in S : str_lt(p, x)})

\* list(S): the members of a set in some iteration order
RECURSIVE list(_)
list(S) ==
  IF S = {} THEN <<>>
  ELSE LET x == CHOOSE x \in S : TRUE IN <<x>> \o list(S \ {x})

\* re.split(pattern, s) for a pattern that matches one character of sep
\* (plus = FALSE) or a maximal run of them (plus = TRUE); cur is the fragment
\* being read and in_run says that the character before i was a delimiter
RECURSIVE re_split_from(_, _, _, _, _, _)
re_split_from(sep, plus, s, i, cur, in_run) ==
  IF i > Len(s) THEN <<cur>>
  ELSE IF s[i] \in sep
       THEN IF plus /\ in_run
            THEN re_split_from(sep, plus, s, i + 1, cur, TRUE)
            ELSE <<cur>> \o re_split_from(sep, plus, s, i + 1, <<>>, TRUE)
       ELSE re_split_from(sep, plus, s, i + 1, Append(cur, s[i]), FALSE)

re_split(sep, plus, s) == re_split_from(sep, plus, s, 1, <<>>, FALSE)

\* [x for x in s if x]
non_empty(s) == SelectSeq(s, LAMBDA x : x # <<>>)

(***************************************************************************)
(* The engine's tables and functions                                       *)
(***************************************************************************)
LEET_MAP ==
  ("a" :> "4") @@ ("b" :> "8") @@ ("e" :> "3") @@ ("g" :> "9") @@ ("i" :> "1") @@
  ("l" :> "1") @@ ("o" :> "0") @@ ("s" :> "5") @@ ("t" :> "7") @@ ("z" :> "2")

COMMON_SUFFIXES ==
  << <<"!">>, <<"@">>, <<"#">>, <<"$">>, <<"1","2","3">>, <<"1","2","3","4">>,
     <<"1","2","3","4","5">>, <<"1">>, <<"0","1">>, <<"0","0","7">>,
     <<"2","0","2","4">>, <<"2","0","2","5">> >>

COMMON_PREFIXES == << <<"!">>, <<"@">>, <<"#">>, <<"$">> >>

\* the separator class [,\s/_\-\.] of split_tokens
TOKEN_SEPS == {",", "/", "_", "-", "."} \cup Whitespace

\* the joiners of mix
MIX_SEPS == << <<>>, <<".">>, <<"_">>, <<"-">>, <<"@">> >>

\* itertools.product(*options), each tuple joined into a str
RECURSIVE product(_)
product(options) ==
  IF options = <<>> THEN {<<>>}
  ELSE {<<h>> \o t : h \in Range(Head(options)), t \in product(Tail(options))}

\* the per-character alternatives of l33tify
leet_options(word) ==
  [i \in DOMAIN word |->
     IF word[i] \in DOMAIN LEET_MAP THEN <<word[i], LEET_MAP[word[i]]>> ELSE <<word[i]>>]

l33tify_no_title(w) ==
  LET word == str_lower(w)
  IN  {word} \cup product(leet_options(word)) \cup {str_capitalize(word), str_upper(word)}

l33tify(w) ==
  LET word == str_lower(w)
  IN  {word} \cup product(leet_options(word))
        \cup {str_capitalize(word), str_upper(word), str_title(word)}

year_range(start, end) == [k \in 1..Max(0, end - start + 1) |-> int_str(start + k - 1)]

split_tokens_keep_empty(s) == re_split(TOKEN_SEPS, TRUE, str_strip(s))

split_tokens_no_slash(s) == non_empty(re_split(TOKEN_SEPS \ {"/"}, TRUE, str_strip(s)))

split_tokens(s) == non_empty(re_split(TOKEN_SEPS, TRUE, str_strip(s)))

\* itertools.permutations(words, 2): the pairs of two different positions
permutations2(ws) ==
  {<<ws[p[1]], ws[p[2]]>> : p \in {q \in (DOMAIN ws) \X (DOMAIN ws) : q[1] # q[2]}}

mix_self_pairs(ws) ==
  LET ww == non_empty(ws)
      perms == {<<ww[p[1]], ww[p[2]]>> : p \in (DOMAIN ww) \X (DOMAIN ww)}
  IN  UNION {l33tify(w) : w \in Range(ww)}
        \cup UNION {{p[1] \o p[2], p[2] \o p[1]} : p \in perms}
        \cup {p[1] \o s \o p[2] : p \in perms, s \in Range(MIX_SEPS)}

mix(ws) ==
  LET ww == non_empty(ws)
      perms == permutations2(ww)
  IN  UNION {l33tify(w) : w \in Range(ww)}
        \cup UNION {{p[1] \o p[2], p[2] \o p[1]} : p \in perms}
        \cup {p[1] \o s \o p[2] : p \in perms, s \in Range(MIX_SEPS)}

sprinkle(ws) ==
  {w \o suf : w \in ws, suf \in Range(COMMON_SUFFIXES)}
    \cup {pre \o w : pre \in Range(COMMON_PREFIXES), w \in ws}

\* the cap of cmd_gen reads words[:m]; a negative m counts from the end
slice_to(ws, m) == SubSeq(ws, 1, IF m >= 0 THEN Min(m, Len(ws)) ELSE Max(0, Len(ws) + m))

(***************************************************************************)
(* gen_wordlist, stage by stage                                            *)
(***************************************************************************)
START_YEAR == 1990

YEAR_GROUP_LEN == 4

\* the tokens derived from the date of birth
dob_tokens(d) ==
  LET stripped == str_strip(d)
      ds == non_empty(re_split(Char \ Digits, FALSE, stripped))
      long == SelectSeq(ds, LAMBDA g : Len(g) = YEAR_GROUP_LEN)
  IN  IF stripped = <<>> THEN <<>>
      ELSE ds \o [i \in DOMAIN long |-> SubSeq(long[i], Len(long[i]) - 1, Len(long[i]))]

hint_tokens(n, p, k, d) ==
  split_tokens(n) \o split_tokens(p) \o split_tokens(k) \o dob_tokens(d)

year_set_any_token(clock, extra) ==
  Range(year_range(START_YEAR, clock + 1))
    \cup (IF extra # <<>> THEN Range(split_tokens(extra)) ELSE {})

year_set(clock, extra) ==
  Range(year_range(START_YEAR, clock + 1))
    \cup (IF extra # <<>> THEN {y \in Range(split_tokens(extra)) : str_isdigit(y)} ELSE {})

affixed_only(p) == sprinkle(p)

affixed(p) == p \cup sprinkle(p)

inject_years_bare(p, ys) ==
  p \cup ys \cup {w \o y : w \in p, y \in ys} \cup {y \o w : y \in ys, w \in p}

inject_years_append_only(p, ys) == p \cup {w \o y : w \in p, y \in ys}

inject_years(p, ys) ==
  p \cup {w \o y : w \in p, y \in ys} \cup {y \o w : y \in ys, w \in p}

essentials_dropped(wy, b) == wy

essentials(wy, b) == wy \cup b

cap_one_more(ws, m) == IF m # 0 /\ Len(ws) > m THEN slice_to(ws, m + 1) ELSE ws

cap(ws, m) == IF m # 0 /\ Len(ws) > m THEN slice_to(ws, m) ELSE ws

(***************************************************************************)
(* Bounds of the model and the hints a request is drawn from               *)
(***************************************************************************)
\* the clock reads a year in MinNow..MaxNow; every year before START_YEAR - 1
\* gives the empty default range that MinNow gives
MaxNow == 1989

MinNow == START_YEAR - 2

\* --max is drawn from -1..MaxCap
MaxCap == 18

NameHints == {<<>>, <<",">>, <<"a", "B">>}

PetHints == {<<>>, <<" ", "z">>}

KeywordHints == {<<>>, <<"k", ",", "/", "k">>}

DobHints == {<<>>, <<"7", "-">>, <<"1", "9", "9", "9">>}

ExtraYearHints == {<<>>, <<"9", "5", ",", "x">>}

Init ==
  /\ pc = "tokenize"
  /\ name \in NameHints
  /\ pet \in PetHints
  /\ dob \in DobHints
  /\ keywords \in KeywordHints
  /\ extra_years \in ExtraYearHints
  /\ now \in MinNow..MaxNow
  /\ max = 0
  /\ tokens = <<>>
  /\ base = {}
  /\ years = {}
  /\ pool = {}
  /\ with_years = {}
  /\ words = <<>>
  /\ arg = <<>>
  /\ ret = {}

Tokenize ==
  /\ pc = "tokenize"
  /\ tokens' = hint_tokens(name, pet, keywords, dob)
  /\ base' = Range(tokens')
  /\ pc' = "years"
  /\ UNCHANGED <<name, pet, dob, keywords, extra_years, max, now, years, pool,
                 with_years, words, arg, ret>>

YearSet ==
  /\ pc = "years"
  /\ years' = year_set(now, extra_years)
  /\ pc' = "mix"
  /\ UNCHANGED <<name, pet, dob, keywords, extra_years, max, now, tokens, base, pool,
                 with_years, words, arg, ret>>

Mix ==
  /\ pc = "mix"
  /\ pool' = mix(list(base))
  /\ pc' = "sprinkle"
  /\ UNCHANGED <<name, pet, dob, keywords, extra_years, max, now, tokens, base, years,
                 with_years, words, arg, ret>>

Sprinkle ==
  /\ pc = "sprinkle"
  /\ pool' = affixed(pool)
  /\ pc' = "inject"
  /\ UNCHANGED <<name, pet, dob, keywords, extra_years, max, now, tokens, base, years,
                 with_years, words, arg, ret>>

InjectYears ==
  /\ pc = "inject"
  /\ with_years' = inject_years(pool, years)
  /\ pc' = "essentials"
  /\ UNCHANGED <<name, pet, dob, keywords, extra_years, max, now, tokens, base, years,
                 pool, words, arg, ret>>

Essentials ==
  /\ pc = "essentials"
  /\ with_years' = essentials(with_years, base)
  /\ pc' = "sort"
  /\ UNCHANGED <<name, pet, dob, keywords, extra_years, max, now, tokens, base, years,
                 pool, words, arg, ret>>

Sort ==
  /\ pc = "sort"
  /\ words' = sorted(with_years)
  /\ pc' = "cap"
  /\ UNCHANGED <<name, pet, dob, keywords, extra_years, max, now, tokens, base, years,
                 pool, with_years, arg, ret>>

\* cmd_gen reads args.max only here, so the model draws it here
Cap ==
  /\ pc = "cap"
  /\ \E m \in -1..MaxCap :
       /\ max' = m
       /\ words' = cap(words, m)
  /\ pc' = "done"
  /\ UNCHANGED <<name, pet, dob, keywords, extra_years, now, tokens, base, years,
                 pool, with_years, arg, ret>>

Next ==
  \/ Tokenize
  \/ YearSet
  \/ Mix
  \/ Sprinkle
  \/ InjectYears
  \/ Essentials
  \/ Sort
  \/ Cap

Spec == Init /\ [][Next]_vars

(***************************************************************************)
(* The pure functions on their own: Init draws the argument, the action    *)
(* applies the function and stores what it returns                         *)
(***************************************************************************)
MaxWordLen == 3

MaxTextLen == 3

MaxTokenLen == 2

MaxTokens == 3

\* all str over alphabet of length at most n
Strs(alphabet, n) == UNION {[1..k -> alphabet] : k \in 0..n}

LeetAlphabet == {"a", "T", "x", "1"}

SplitAlphabet == {"a", "B", ",", " ", "\t", "/", "_", "-", "."}

MixAlphabet == {"a", "@"}

MixTokens == Strs(MixAlphabet, MaxTokenLen) \ {<<>>}

\* the lists of distinct tokens of length at most MaxTokens
TokenLists ==
  {l \in UNION {[1..k -> MixTokens] : k \in 0..MaxTokens} :
     \A i, j \in DOMAIN l : i # j => l[i] # l[j]}

EngineIdle ==
  /\ name = <<>>
  /\ pet = <<>>
  /\ dob = <<>>
  /\ keywords = <<>>
  /\ extra_years = <<>>
  /\ max = 0
  /\ now = MinNow
  /\ tokens = <<>>
  /\ base = {}
  /\ years = {}
  /\ pool = {}
  /\ with_years = {}
  /\ words = <<>>

engine_vars == <<name, pet, dob, keywords, extra_years, max, now, tokens, base, years,
                 pool, with_years, words>>

InitLeet == pc = "call" /\ arg \in Strs(LeetAlphabet, MaxWordLen) /\ ret = {} /\ EngineIdle

CallL33tify ==
  /\ pc = "call"
  /\ ret' = l33tify(arg)
  /\ pc' = "ret"
  /\ UNCHANGED <<arg, engine_vars>>

NextLeet == CallL33tify

SpecLeet == InitLeet /\ [][NextLeet]_vars

InitSplit == pc = "call" /\ arg \in Strs(SplitAlphabet, MaxTextLen) /\ ret = <<>> /\ EngineIdle

CallSplitTokens ==
  /\ pc = "call"
  /\ ret' = split_tokens(arg)
  /\ pc' = "ret"
  /\ UNCHANGED <<arg, engine_vars>>

NextSplit == CallSplitTokens

SpecSplit == InitSplit /\ [][NextSplit]_vars

InitMix == pc = "call" /\ arg \in TokenLists /\ ret = {} /\ EngineIdle

CallMix ==
  /\ pc = "call"
  /\ ret' = mix(arg)
  /\ pc' = "ret"
  /\ UNCHANGED <<arg, engine_vars>>

NextMix == CallMix

SpecMix == InitMix /\ [][NextMix]_vars

(***************************************************************************)
(* Properties                                                              *)
(***************************************************************************)
Ascending(ws) == \A i \in 1..(Len(ws) - 1) : str_lt(ws[i], ws[i + 1])

\* the separator characters of the raw hints
HintSeparators == {",", " ", "\t", "/", "_", "-", "."}

HasAny(w, chars) == \E i \in DOMAIN w : w[i] \in chars

CountOf(w, chars) == Cardinality({i \in DOMAIN w : w[i] \in chars})

\* gen_wordlist has returned (words holds its result) or cmd_gen has capped it
Returned == pc \in {"cap", "done"}

\* C1, first half: what gen_wordlist returns is the whole deduplicated candidate
\* set in strictly ascending lexicographic order
SortedFull ==
  pc = "cap" => /\ Ascending(words)
                /\ Range(words) = with_years
                /\ Len(words) = Cardinality(with_years)

\* C1, second half: the cap step keeps, for M > 0, exactly the first
\* min(M, total) entries of the sorted list and, for M = 0, the whole list
CapPrefix ==
  (pc = "cap" /\ max' >= 0) =>
     /\ max' > 0 => /\ Len(words') = Min(max', Len(words))
                    /\ words' = SubSeq(words, 1, Len(words'))
     /\ max' = 0 => words' = words

\* C1, the result: a capped Wordlist is ascending, holds candidates only and has
\* min(M, total) entries
CappedShape ==
  (pc = "done" /\ max > 0) =>
     /\ Len(words) = Min(max, Cardinality(with_years))
     /\ Ascending(words)
     /\ Range(words) \subseteq with_years

\* C1: with M > 0 the Wordlist has length min(M, total_unique_candidates) and is
\* the first M entries, ascending and without duplicates, of the sorted
\* deduplicated candidate set; with M = 0 it is that whole sorted set
CapContract == []SortedFull /\ []CappedShape /\ [][CapPrefix]_vars

CapContractWitness ==
  /\ pc = "done"
  /\ max > 0
  /\ Len(words) = max
  /\ Cardinality(with_years) > max
  /\ Ascending(words)

\* C2: every raw hint token is in the Wordlist, in its original case, whenever
\* the cap does not truncate
Minimality ==
  /\ pc = "cap" => \A t \in Range(tokens) : t \in Range(words)
  /\ (pc = "done" /\ (max = 0 \/ max >= Cardinality(with_years)))
       => \A t \in Range(tokens) : t \in Range(words)

MinimalityWitness ==
  /\ pc = "done"
  /\ max = 0
  /\ \E t \in Range(tokens) : t \notin pool /\ t # str_lower(t) /\ t \in Range(words)

\* C3 as stated: no string of the Wordlist contains a separator character of
\* the raw hints (comma, whitespace, slash, underscore, hyphen, period)
NoHintSeparator ==
  Returned => \A i \in DOMAIN words : ~HasAny(words[i], HintSeparators)

\* C3 amended: no string of the Wordlist contains a comma, whitespace or a
\* slash, and a string holds at most one of ".", "_", "-" (the joiner that mix
\* puts between two tokens)
OnlyJoinerSeparators ==
  Returned => \A i \in DOMAIN words :
                 /\ ~HasAny(words[i], {",", " ", "\t", "/"})
                 /\ CountOf(words[i], {".", "_", "-"}) <= 1

OnlyJoinerSeparatorsWitness ==
  /\ pc = "cap"
  /\ HasAny(keywords, {"/"})
  /\ \E i \in DOMAIN words : CountOf(words[i], {".", "_", "-"}) = 1

\* C4: when the hints yield no token the Wordlist is empty, whatever the extra
\* years and the cap
EmptyPool == (Returned /\ tokens = <<>>) => words = <<>>

EmptyPoolWitness ==
  /\ pc = "done"
  /\ tokens = <<>>
  /\ name # <<>>
  /\ years # {}
  /\ \E y \in Range(split_tokens(extra_years)) : y \in years
  /\ max > 0
  /\ words = <<>>

\* C5 as stated: the result of mix on a deduplicated token list holds a+a for
\* no token a of the list
NoSelfPair == pc = "ret" => \A a \in Range(arg) : (a \o a) \notin ret

\* C5 amended: a+a is in the result of mix only where it coincides with a leet
\* or case variant of a token or with x+joiner+y for two distinct tokens x, y
SelfPairOnlyByCoincidence ==
  pc = "ret" =>
    \A a \in Range(arg) :
      (a \o a) \in ret =>
         \/ \E w \in Range(arg) : (a \o a) \in l33tify(w)
         \/ \E x, y \in Range(arg) : \E s \in Range(MIX_SEPS) :
              x # y /\ a \o a = x \o s \o y

SelfPairOnlyByCoincidenceWitness ==
  /\ pc = "ret"
  /\ Len(arg) >= 2
  /\ \E a \in Range(arg) : (a \o a) \notin ret
  /\ \E a \in Range(arg) : (a \o a) \in ret

\* the letter->digit table as the claim lists it
ClaimDigit(c) ==
  CASE c = "a" -> {"4"} [] c = "b" -> {"8"} [] c = "e" -> {"3"} [] c = "g" -> {"9"}
    [] c = "i" -> {"1"} [] c = "l" -> {"1"} [] c = "o" -> {"0"} [] c = "s" -> {"5"}
    [] c = "t" -> {"7"} [] c = "z" -> {"2"} [] OTHER -> {}

\* the strings got from w by keeping or substituting each character
KeepOrSubstitute(w) ==
  {s \in [DOMAIN w -> UNION {{w[i]} \cup ClaimDigit(w[i]) : i \in DOMAIN w}] :
     \A i \in DOMAIN w : s[i] \in {w[i]} \cup ClaimDigit(w[i])}

CaseForms(w) == {str_capitalize(w), str_upper(w), str_title(w)}

\* C6: l33tify(w) is exactly the keep-or-substitute strings of lower(w) with its
\* capitalized, upper and title forms; without a substitutable character it is
\* {lower, capitalized, upper, title}
LeetExact ==
  pc = "ret" =>
    LET lw == str_lower(arg)
    IN  /\ ret = KeepOrSubstitute(lw) \cup CaseForms(lw)
        /\ (\A i \in DOMAIN lw : ClaimDigit(lw[i]) = {}) => ret = {lw} \cup CaseForms(lw)

LeetExactWitness ==
  /\ pc = "ret"
  /\ Len(arg) = MaxWordLen
  /\ Cardinality({i \in DOMAIN arg : ClaimDigit(str_lower(arg)[i]) # {}}) >= 2
  /\ str_title(str_lower(arg)) \notin {str_capitalize(str_lower(arg)), str_upper(str_lower(arg))}
  /\ Cardinality(ret) >= 6

\* C7: split_tokens returns only non-empty tokens without a separator character,
\* and nothing for an empty or separator-only text
TokensClean ==
  pc = "ret" =>
    /\ \A i \in DOMAIN ret : ret[i] # <<>> /\ ~HasAny(ret[i], HintSeparators)
    /\ (\A i \in DOMAIN arg : arg[i] \in HintSeparators) => ret = <<>>

TokensCleanWitness ==
  /\ pc = "ret"
  /\ Len(arg) = MaxTextLen
  /\ arg[1] \in HintSeparators \ {" ", "\t"}
  /\ Len(ret) = 1

\* the number a string of decimal digits renders
RECURSIVE DecValue(_)
DecValue(y) ==
  IF y = <<>> THEN 0
  ELSE 10 * DecValue(SubSeq(y, 1, Len(y) - 1))
         + (CHOOSE d \in 0..9 : Ord[y[Len(y)]] = Ord["0"] + d)

YearsBuilt == pc \notin {"tokenize", "years"}

\* C8 as stated: every member of the YearSet is a string of exactly four digits
YearsFourDigits ==
  YearsBuilt => \A y \in years : Len(y) = 4 /\ \A i \in DOMAIN y : y[i] \in Digits

\* C8 amended: every member of the YearSet is a non-empty string of digits,
\* either the four-digit rendering of a year in 1990..current_year+1 or a
\* digit-only extra-year token, whatever its length
YearsDigitOnly ==
  YearsBuilt =>
    \A y \in years :
      /\ y # <<>>
      /\ \A i \in DOMAIN y : y[i] \in Digits
      /\ \/ Len(y) = 4 /\ DecValue(y) \in 1990..(now + 1)
         \/ y \in Range(split_tokens(extra_years))

YearsDigitOnlyWitness ==
  /\ pc = "mix"
  /\ \E y \in years : Len(y) # 4
  /\ \E y \in years : DecValue(y) = 1990
  /\ \E t \in Range(split_tokens(extra_years)) : t \notin years

\* the candidates before the affix step, from the token pool
PreAffix ==
  UNION {l33tify(t) : t \in base}
    \cup {a \o s \o b : <<a, b>> \in {p \in base \X base : p[1] # p[2]}, s \in Range(MIX_SEPS)}

\* the affixed candidates
Affixed ==
  {w \o suf : w \in PreAffix, suf \in Range(COMMON_SUFFIXES)}
    \cup {pre \o w : pre \in Range(COMMON_PREFIXES), w \in PreAffix}

\* C9: for every pre-affix or affixed candidate w and every year y, w+y and y+w
\* are in the uncapped Wordlist, and so is w itself
YearInjection ==
  (pc = "cap" \/ (pc = "done" /\ max = 0)) =>
    LET out == Range(words)
    IN  \A w \in PreAffix \cup Affixed :
          /\ w \in out
          /\ \A y \in years : (w \o y) \in out /\ (y \o w) \in out

YearInjectionWitness ==
  /\ pc = "cap"
  /\ Cardinality(base) >= 2
  /\ Cardinality(years) >= 2
  /\ \E w \in Affixed \ PreAffix : \E y \in years :
       (y \o w) \in Range(words) /\ (y \o w) \notin pool

\* the candidate collection at each stage
Candidates ==
  IF pc \in {"tokenize", "years", "mix"} THEN {}
  ELSE IF pc \in {"sprinkle", "inject"} THEN pool
  ELSE IF pc \in {"essentials", "sort"} THEN with_years
  ELSE Range(words)

\* C10: until the cap is applied every stage leaves each earlier candidate in
\* the candidate collection
GrowOnly == [][pc # "cap" => Candidates \subseteq Candidates']_vars

GrowOnlyWitness ==
  /\ pc = "cap"
  /\ base # {}
  /\ Cardinality(pool) > Cardinality(base)
  /\ Cardinality(with_years) > Cardinality(pool)
  /\ \E t \in base : t \notin pool

====
